---- MODULE Spec2Model ----
(***************************************************************************)
(* Availability aggregation and period generation of the Go2gether         *)
(* back end (internal/handlers/trips.go) over its PostgreSQL tables        *)
(* trip_members, availabilities and available_periods.                     *)
(*                                                                         *)
(* Calendar dates are integers (day numbers); the trip window is the       *)
(* inclusive range start_date..end_date.  A SQL statement is one step; a   *)
(* transaction (pgx Begin, default isolation READ COMMITTED) buffers its   *)
(* deletes and inserts until Commit and holds row locks meanwhile.         *)
(***************************************************************************)
EXTENDS Integers, Sequences, FiniteSets, TLC

\* ------------------------------------------------------------------ bounds
MaxDays == 5        \* longest daily-count sequence drawn for the pure pipeline
MaxCount == 2       \* largest per-day free_count drawn for the pure pipeline
MaxParam == 3       \* largest min_days / min_availability_member drawn
WindowDays == 3     \* days of the trip window in the database specifications
MaxRuns == 3        \* GenerateAvailablePeriods calls in one behaviour
MaxSaves == 2       \* SaveAvailability calls in one behaviour
MainRuns == 1       \* generation runs where membership changes too
MainSaves == 2      \* submissions where membership changes too
NotiRuns == 2       \* generation runs where the notification tasks run too
FrameCalls == 1     \* runs, and submissions, where reads and DeleteTrip run too
SendCalls == 1      \* runs, and submissions, whose notification tasks are followed

Trips == {"t1"}
NoTrip == "t0"                  \* a trip id that has no row in trips
OtherTrip == "t2"               \* a trip no request of a behaviour names
Users == {"u1", "u2"}
GenProcs == {"g1", "g2"}        \* concurrent generation requests
SaveProcs == {"s1", "s2"}       \* concurrent submission requests

VARIABLES
  xpc,          \* position of the pure pipeline: "in" (inputs drawn) or "out"
  xDaily,       \* daily: sequence of [Date, FreeCount], ascending dates
  xMinDays,     \* in.MinDays as supplied by the caller
  xMinAvail,    \* in.MinAvailabilityMember as supplied by the caller
  xTotal,       \* totalMembers
  xPeriods,     \* periods after extraction and ranking
  trips,            \* table trips: trip id -> [start_date, end_date, creator_id]
  trip_members,     \* table trip_members: committed rows
  availabilities,   \* table availabilities: committed rows
  available_periods,\* table available_periods: committed rows
  gen,              \* GenerateAvailablePeriods requests: locals and position
  save,             \* SaveAvailability requests: locals and position
  nextSave,         \* number of the next SaveAvailability call
  myAvailResp,      \* last response of GetMyAvailability or TripDates
  lastSaved,        \* history: per (trip, user) the call that committed last
  savedSets,        \* history: per (trip, user) the date sets of committed calls
  snapshots,        \* history: per run, the (total_members, daily) values the
                    \* tables gave at the moments since the run started
  nextRun,          \* number of the next generation call (row ids, created_at)
  periodsResp,      \* last response of GetAvailablePeriods
  notiStarted,      \* notification tasks started by sendNoti
  histSets,         \* history: the period sets written by committed runs
  lastCommit,       \* history: the period set of the run that committed last
  runHist           \* history: the runs that committed, the runs that failed

pipeVars == <<xpc, xDaily, xMinDays, xMinAvail, xTotal, xPeriods>>
dbVars == <<trips, trip_members, availabilities, available_periods>>
vars == <<xpc, xDaily, xMinDays, xMinAvail, xTotal, xPeriods,
          trips, trip_members, availabilities, available_periods,
          gen, save, nextSave, myAvailResp, lastSaved, savedSets, snapshots,
          nextRun, periodsResp, notiStarted, histSets, lastCommit, runHist>>
saveVars == <<save, nextSave, myAvailResp>>
genVars == <<gen, nextRun, periodsResp>>
histVars == <<histSets, lastCommit, lastSaved, savedSets, snapshots, runHist>>

\* ------------------------------------------------------- pure pipeline
\* in.MinDays <= 0 -> 1 ; in.MinAvailabilityMember <= 0 -> 1
DefaultParam(x) == IF x <= 0 THEN 1 ELSE x

\* step 3: pass = days with FreeCount >= MinAvailabilityMember
QualifiesMut(d, minAvail) == d.FreeCount > minAvail
Qualifies(d, minAvail) == d.FreeCount >= minAvail

RECURSIVE PassDays(_, _)
PassDays(daily, minAvail) ==
  IF daily = <<>> THEN <<>>
  ELSE IF Qualifies(Head(daily), minAvail)
       THEN <<Head(daily)>> \o PassDays(Tail(daily), minAvail)
       ELSE PassDays(Tail(daily), minAvail)

\* A float64 percentage is kept as an integer number of 1/10000 percent
\* (33.3333 is 333333), rounded to the nearest.
\* Percent: (float64(minFree) / float64(totalMembers)) * 100.0
Percent(minFree, totalMembers) ==
  (minFree * 1000000 + totalMembers \div 2) \div totalMembers
\* math.Round(v*100) / 100 for v >= 0
Round2(v) == ((v + 50) \div 100) * 100

\* advance(): close the current run, keep it when dur >= MinDays
AdvanceFlip(periods, curStart, curEnd, minFree, minDays, totalMembers) ==
  LET dur == curEnd - curStart + 1 IN
  IF dur <= minDays
  THEN periods \o <<[Start |-> curStart, End |-> curEnd, Duration |-> dur,
                     MinFree |-> minFree, TotalM |-> totalMembers,
                     Percent |-> Percent(minFree, totalMembers)]>>
  ELSE periods
AdvanceMut(periods, curStart, curEnd, minFree, minDays, totalMembers) ==
  periods \o <<[Start |-> curStart, End |-> curEnd,
                Duration |-> curEnd - curStart + 1,
                MinFree |-> minFree, TotalM |-> totalMembers,
                Percent |-> Percent(minFree, totalMembers)]>>
Advance(periods, curStart, curEnd, minFree, minDays, totalMembers) ==
  LET dur == curEnd - curStart + 1 IN
  IF dur >= minDays
  THEN periods \o <<[Start |-> curStart, End |-> curEnd, Duration |-> dur,
                     MinFree |-> minFree, TotalM |-> totalMembers,
                     Percent |-> Percent(minFree, totalMembers)]>>
  ELSE periods

\* the running minimum kept while a run is extended
RunMinMut(minFree, fc) == minFree
RunMin(minFree, fc) == IF fc < minFree THEN fc ELSE minFree

\* step 4: for i := 1; i < len(pass); i++ { ... } ; advance()
RECURSIVE GroupLoop(_, _, _, _, _, _, _, _)
GroupLoop(pass, i, curStart, curEnd, minFree, periods, minDays, totalMembers) ==
  IF i > Len(pass)
  THEN Advance(periods, curStart, curEnd, minFree, minDays, totalMembers)
  ELSE IF pass[i].Date = curEnd + 1
       THEN GroupLoop(pass, i + 1, curStart, pass[i].Date,
                      RunMin(minFree, pass[i].FreeCount),
                      periods, minDays, totalMembers)
       ELSE GroupLoop(pass, i + 1, pass[i].Date, pass[i].Date, pass[i].FreeCount,
                      Advance(periods, curStart, curEnd, minFree, minDays, totalMembers),
                      minDays, totalMembers)

ExtractPeriods(daily, minAvail, minDays, totalMembers) ==
  LET pass == PassDays(daily, minAvail) IN
  IF Len(pass) > 0
  THEN GroupLoop(pass, 2, pass[1].Date, pass[1].Date, pass[1].FreeCount,
                 <<>>, minDays, totalMembers)
  ELSE <<>>

\* step 5: comparator of sort.SliceStable
PeriodLessMut(a, b) ==
  IF a.MinFree # b.MinFree THEN a.MinFree > b.MinFree
  ELSE a.Duration > b.Duration
PeriodLess(a, b) ==
  IF a.MinFree # b.MinFree THEN a.MinFree > b.MinFree
  ELSE IF a.Duration # b.Duration THEN a.Duration > b.Duration
  ELSE a.Start < b.Start

\* stable insertion of x into the sorted sequence s
RECURSIVE InsertSorted(_, _)
InsertSorted(x, s) ==
  IF s = <<>> THEN <<x>>
  ELSE IF PeriodLess(x, Head(s)) THEN <<x>> \o s
       ELSE <<Head(s)>> \o InsertSorted(x, Tail(s))

RECURSIVE SortPeriods(_)
SortPeriods(s) ==
  IF s = <<>> THEN <<>>
  ELSE InsertSorted(s[Len(s)], SortPeriods(SubSeq(s, 1, Len(s) - 1)))

\* steps 3-5 of GenerateAvailablePeriods with the defaults applied
ComputePeriods(daily, minAvailIn, minDaysIn, totalMembers) ==
  SortPeriods(ExtractPeriods(daily, DefaultParam(minAvailIn),
                             DefaultParam(minDaysIn), totalMembers))

\* daily counts as the generate_series query returns them: dates 1..n
DailyOf(counts) == [i \in 1..Len(counts) |-> [Date |-> i, FreeCount |-> counts[i]]]

CountSeqs == UNION {[1..n -> 0..MaxCount] : n \in 0..MaxDays}

\* locals of a GenerateAvailablePeriods request before it starts
GenIdle ==
  [pc |-> "idle", userID |-> "u1", tripID |-> "t1", MinDays |-> 0, MinAvail |-> 0,
   tStart |-> 0, tEnd |-> 0, totalMembers |-> 0, daily |-> <<>>,
   periods |-> <<>>, i |-> 0, snap |-> {}, txDel |-> {}, txIns |-> {},
   run |-> 0, notiErr |-> FALSE, status |-> 0]

\* locals of a SaveAvailability request before it starts
SaveIdle ==
  [pc |-> "idle", tripID |-> "t1", userID |-> "u1", dates |-> <<>>,
   tStart |-> 0, tEnd |-> 0, validDates |-> <<>>, snap |-> {},
   txDel |-> {}, txIns |-> {}, txFlag |-> FALSE, status |-> 0, overlap |-> FALSE]

\* ------------------------------------------------------------ database
\* trip_members row; PRIMARY KEY (trip_id, user_id)
MemberRow(t, u, sub) ==
  [trip_id |-> t, user_id |-> u, status |-> "accepted", availability_submitted |-> sub]
\* a trip_members row of another status: 'pending' (the column default) or 'declined'
InvitedRow(t, u, st) == [MemberRow(t, u, FALSE) EXCEPT !.status = st]
\* availabilities row; UNIQUE (trip_id, user_id, date)
AvailRow(t, u, d) == [trip_id |-> t, user_id |-> u, date |-> d, status |-> "free"]

\* SELECT COUNT(1) FROM trip_members WHERE trip_id = $1 AND status = 'accepted'
CountAccepted(t) ==
  Cardinality({m \in trip_members : m.trip_id = t /\ m.status = "accepted"})

\* JOIN trip_members tm ON tm.trip_id = a.trip_id AND tm.user_id = a.user_id
\*                      AND tm.status = 'accepted'
JoinAcceptedMut(a, tm) == tm.trip_id = a.trip_id /\ tm.status = "accepted"
JoinAccepted(a, tm) ==
  tm.trip_id = a.trip_id /\ tm.user_id = a.user_id /\ tm.status = "accepted"

\* f: COUNT(*) of the joined rows of one date (0 by COALESCE when none)
FreeCountOn(t, d) ==
  Cardinality({pr \in availabilities \X trip_members :
                 /\ JoinAccepted(pr[1], pr[2])
                 /\ pr[1].trip_id = t /\ pr[1].status = "free" /\ pr[1].date = d})

\* d LEFT JOIN f ORDER BY d: one entry per date of generate_series(start, end)
DailyCounts(t, tStart, tEnd) ==
  [k \in 1..(tEnd - tStart + 1) |->
     [Date |-> tStart + k - 1, FreeCount |-> FreeCountOn(t, tStart + k - 1)]]

\* available_periods row of period p ranked n, written by generation call run
PeriodRow(t, run, n, p) ==
  [id |-> <<run, n>>, trip_id |-> t, period_number |-> n,
   start_date |-> p.Start, end_date |-> p.End, duration_days |-> p.Duration,
   free_count |-> p.MinFree, total_members |-> p.TotalM,
   availability_percentage |-> p.Percent]

\* UNIQUE (trip_id, period_number)
SamePeriodKeyMut(a, b) == FALSE
SamePeriodKey(a, b) == a.trip_id = b.trip_id /\ a.period_number = b.period_number

NoSave == [some |-> FALSE, dates |-> <<>>, overlap |-> FALSE]
NoRead == [valid |-> FALSE, user_id |-> "u1", items |-> <<>>, after |-> NoSave]

\* no request in progress, nothing answered or recorded yet
HandlersIdle ==
  /\ gen = [p \in GenProcs |-> GenIdle]
  /\ nextRun = 1
  /\ periodsResp = [valid |-> FALSE, rows |-> <<>>, duringDelete |-> FALSE]
  /\ notiStarted = {}
  /\ histSets = {{}}
  /\ lastCommit = {}
  /\ save = [p \in SaveProcs |-> SaveIdle]
  /\ nextSave = 1
  /\ myAvailResp = NoRead
  /\ lastSaved = [k \in Trips \X Users |-> NoSave]
  /\ savedSets = [k \in Trips \X Users |-> {{}}]
  /\ snapshots = [p \in GenProcs |-> {}]
  /\ runHist = [committed |-> {}, failed |-> {}]

DbEmpty ==
  /\ trips = [t \in Trips |-> [start_date |-> 1, end_date |-> WindowDays, creator_id |-> "u1"]]
  /\ trip_members = {}
  /\ availabilities = {}
  /\ available_periods = {}
  /\ HandlersIdle

\* ------------------------------------------- GenerateAvailablePeriods
genOther == <<pipeVars, saveVars, trips, trip_members, availabilities>>

\* rows another open transaction has deleted and still holds locked
PeriodsLockedByOthers(p) == UNION {gen[q].txDel : q \in GenProcs \ {p}}
\* rows another open transaction has inserted and not yet committed
PeriodsPendingOfOthers(p) == UNION {gen[q].txIns : q \in GenProcs \ {p}}

\* the caller u must be authenticated, no more: its id is dropped (_, ok := ...);
\* decode the payload, apply the defaults, SELECT the trip window
GenStart(p, u, t, md, ma) ==
  /\ gen[p].pc = "idle"
  /\ nextRun <= MaxRuns
  /\ nextRun' = nextRun + 1
  /\ IF t \notin DOMAIN trips
     THEN gen' = [gen EXCEPT ![p] = [GenIdle EXCEPT !.pc = "failed", !.userID = u,
                                                   !.status = 404]]
     ELSE IF trips[t].end_date < trips[t].start_date
     THEN gen' = [gen EXCEPT ![p] = [GenIdle EXCEPT !.pc = "failed", !.userID = u,
                                                   !.status = 400]]
     ELSE gen' = [gen EXCEPT ![p] =
                    [GenIdle EXCEPT !.pc = "count", !.userID = u,
                                    !.tripID = t, !.run = nextRun,
                                    !.MinDays = DefaultParam(md),
                                    !.MinAvail = DefaultParam(ma),
                                    !.tStart = trips[t].start_date,
                                    !.tEnd = trips[t].end_date]]
  /\ UNCHANGED <<genOther, available_periods, periodsResp, notiStarted>>

\* SELECT COUNT(1) of the accepted members; 400 when there is none
GenCountMembers(p) ==
  /\ gen[p].pc = "count"
  /\ LET n == CountAccepted(gen[p].tripID) IN
     IF n = 0
     THEN gen' = [gen EXCEPT ![p].pc = "failed", ![p].status = 400]
     ELSE gen' = [gen EXCEPT ![p].pc = "daily", ![p].totalMembers = n]
  /\ UNCHANGED <<genOther, available_periods, nextRun, periodsResp, notiStarted>>

\* the daily free_count query, then steps 3-5 on its rows, then Begin
GenQueryDaily(p) ==
  /\ gen[p].pc = "daily"
  /\ LET daily == DailyCounts(gen[p].tripID, gen[p].tStart, gen[p].tEnd) IN
     gen' = [gen EXCEPT ![p].pc = "delete",
                        ![p].daily = daily,
                        ![p].periods =
                           SortPeriods(ExtractPeriods(daily, gen[p].MinAvail,
                                                      gen[p].MinDays,
                                                      gen[p].totalMembers))]
  /\ UNCHANGED <<genOther, available_periods, nextRun, periodsResp, notiStarted>>

\* DELETE FROM available_periods WHERE trip_id = $1: the statement's snapshot
GenDeleteScan(p) ==
  /\ gen[p].pc = "delete"
  /\ gen' = [gen EXCEPT ![p].pc = "deleteApply",
                        ![p].snap = {r \in available_periods : r.trip_id = gen[p].tripID}]
  /\ UNCHANGED <<genOther, available_periods, nextRun, periodsResp, notiStarted>>

\* rows the DELETE removes once it holds their locks: the rows of its
\* snapshot that no committed transaction has deleted meanwhile
DeleteTargetsMut(snap, committed) == committed
DeleteTargets(snap, committed) == snap \cap committed

\* ... the DELETE waits for the row locks of open transactions, then removes
GenDeleteApply(p) ==
  /\ gen[p].pc = "deleteApply"
  /\ DeleteTargets(gen[p].snap, available_periods) \cap PeriodsLockedByOthers(p) = {}
  /\ gen' = [gen EXCEPT ![p].pc = IF gen[p].periods = <<>> THEN "commit" ELSE "insert",
                        ![p].i = 1,
                        ![p].snap = {},
                        ![p].txDel = DeleteTargets(gen[p].snap, available_periods)]
  /\ UNCHANGED <<genOther, available_periods, nextRun, periodsResp, notiStarted>>

\* periodNo := i + 1 for the Go index i; the sequences here are indexed from 1
PeriodNoMut(i) == i + 1
PeriodNo(i) == i

\* INSERT INTO available_periods of periods[i] with period_number i + 1 (Go index)
GenInsert(p) ==
  /\ gen[p].pc = "insert"
  /\ LET g == gen[p]
         row == PeriodRow(g.tripID, g.run, PeriodNo(g.i), g.periods[g.i])
         live == available_periods \ g.txDel
         dup == {c \in live : SamePeriodKey(c, row)}
         pend == {c \in PeriodsPendingOfOthers(p) : SamePeriodKey(c, row)}
     IN
     IF dup \ PeriodsLockedByOthers(p) # {} \/ g.tripID \notin DOMAIN trips
     THEN \* unique violation, or no trips row for REFERENCES trips(id): 500,
          \* the deferred Rollback drops the transaction
          gen' = [gen EXCEPT ![p].pc = "failed", ![p].status = 500,
                             ![p].txDel = {}, ![p].txIns = {}]
     ELSE /\ dup = {}      \* else wait for the transaction that deleted the row
          /\ pend = {}     \* else wait for the transaction that inserted the key
          /\ gen' = [gen EXCEPT ![p].txIns = g.txIns \cup {row},
                                ![p].i = g.i + 1,
                                ![p].pc = IF g.i = Len(g.periods) THEN "commit" ELSE "insert"]
  /\ UNCHANGED <<genOther, available_periods, nextRun, periodsResp, notiStarted>>

\* tx.Commit
GenCommit(p) ==
  /\ gen[p].pc = "commit"
  /\ available_periods' = (available_periods \ gen[p].txDel) \cup gen[p].txIns
  /\ gen' = [gen EXCEPT ![p].pc = "notify", ![p].txDel = {}, ![p].txIns = {}]
  /\ UNCHANGED <<genOther, nextRun, periodsResp, notiStarted>>

\* defer tx.Rollback: the committed rows after an open transaction g is dropped
RollbackMut(committed, g) == committed \ g.txDel
Rollback(committed, g) == committed

\* a query, statement or the commit returns an error: 500 and Rollback
GenDbError(p) ==
  /\ gen[p].pc \in {"count", "daily", "delete", "deleteApply", "insert", "commit"}
  /\ available_periods' = Rollback(available_periods, gen[p])
  /\ gen' = [gen EXCEPT ![p].pc = "failed", ![p].status = 500,
                        ![p].snap = {}, ![p].txDel = {}, ![p].txIns = {}]
  /\ UNCHANGED <<genOther, nextRun, periodsResp, notiStarted>>

\* retries of the goroutine started by sendNoti
maxRetries == 2

\* a task started by sendNoti: the goroutine has made no attempt yet
NotiTask(src, to, t, typ, n) ==
  [src |-> src, to |-> to, trip_id |-> t, type |-> typ, n |-> n,
   attempt |-> 0, state |-> "running", last |-> "none"]

\* uuid.Nil: the value of a uuid.UUID that no Scan has filled
NilUser == "nil"
\* sendNoti returns before the go statement when the recipient is uuid.Nil or
\* the title is blank after TrimSpace
SendNotiStartsMut(to, title) == title # ""
SendNotiStarts(to, title) == to # NilUser /\ title # ""
\* the tasks a call of sendNoti starts
sendNoti(to, title, task) == IF SendNotiStarts(to, title) THEN {task} ELSE {}

\* the position after tx.Commit returned nil
AfterCommitMut(g) == g.pc \in {"commit", "notify"}
AfterCommit(g) == g.pc = "notify"

\* the status written at the end of the handler; the error of the member
\* query is dropped (if err == nil { ... })
RespStatusMut(queryErr) == IF queryErr THEN 500 ELSE 200
RespStatus(queryErr) == 200

\* SELECT the accepted members on r.Context(), sendNoti to each, write the 200
\* response; with the request cancelled the SELECT fails and no task starts
GenNotify(p, cancelled) ==
  /\ AfterCommit(gen[p])
  /\ notiStarted' = notiStarted \cup
       (IF cancelled THEN {}
        ELSE UNION {sendNoti(m.user_id, "Updated Avvailability Periods",
                             NotiTask(gen[p].run, m.user_id, gen[p].tripID,
                                      "trip_update", Len(gen[p].periods))) :
                      m \in {m \in trip_members :
                               m.trip_id = gen[p].tripID /\ m.status = "accepted"}})
  /\ gen' = [gen EXCEPT ![p].pc = "done", ![p].notiErr = cancelled,
                        ![p].status = RespStatus(cancelled)]
  /\ UNCHANGED <<genOther, available_periods, nextRun, periodsResp>>

\* the handler has returned; the request slot is free again
GenReturn(p) ==
  /\ gen[p].pc \in {"done", "failed"}
  /\ nextRun <= MaxRuns
  /\ gen' = [gen EXCEPT ![p] = GenIdle]
  /\ UNCHANGED <<genOther, available_periods, nextRun, periodsResp, notiStarted>>

\* ------------------------------------------------ GetAvailablePeriods
\* ORDER BY period_number ASC, start_date ASC
RowBefore(a, b) ==
  \/ a.period_number < b.period_number
  \/ a.period_number = b.period_number /\ a.start_date < b.start_date
  \/ a.period_number = b.period_number /\ a.start_date = b.start_date /\ a.id[1] < b.id[1]
RECURSIVE OrderRows(_)
OrderRows(S) ==
  IF S = {} THEN <<>>
  ELSE LET r == CHOOSE x \in S : \A y \in S \ {x} : RowBefore(x, y)
       IN <<r>> \o OrderRows(S \ {r})

\* AvailabilityPercentage of a period in the response of the generation
RespPercent(p) == Round2(p.Percent)
\* AvailabilityPercentage of a row in the response of GetAvailablePeriods:
\* the stored value (0 when the column is NULL, which no INSERT here writes)
ReadPercent(row) == row.availability_percentage

\* the rows one SELECT outside a transaction sees: the committed ones
VisiblePeriodsMut(t) ==
  {r \in (available_periods \ UNION {gen[q].txDel : q \in GenProcs})
         \cup UNION {gen[q].txIns : q \in GenProcs} : r.trip_id = t}
VisiblePeriods(t) == {r \in available_periods : r.trip_id = t}

GetAvailablePeriods(t) ==
  /\ t \in DOMAIN trips
  /\ periodsResp' =
       [valid |-> TRUE, rows |-> OrderRows(VisiblePeriods(t)),
        duringDelete |-> \E q \in GenProcs : gen[q].txDel # {}]
  /\ UNCHANGED <<genOther, available_periods, gen, nextRun, notiStarted>>

\* history of the period store: the sets committed, and the last of them
HistGen ==
  LET c == {p \in GenProcs : gen[p].pc = "commit" /\ gen'[p].pc = "notify"} IN
  /\ histSets' = histSets \cup {gen[p].txIns : p \in c}
  /\ lastCommit' = IF c = {} THEN lastCommit ELSE gen[CHOOSE p \in c : TRUE].txIns
  /\ UNCHANGED <<lastSaved, savedSets, snapshots, runHist>>

\* ------------------------------- specification: concurrent generation
\* Scenario ledger u1 free on 1,2,3 and u2 free on 1,3: daily counts 2,1,2
InitGen ==
  /\ xpc = "in" /\ xDaily = <<>> /\ xMinDays = 0 /\ xMinAvail = 0
  /\ xTotal = 0 /\ xPeriods = <<>>
  /\ trips = [t \in Trips |-> [start_date |-> 1, end_date |-> WindowDays, creator_id |-> "u1"]]
  /\ trip_members = {MemberRow("t1", u, TRUE) : u \in Users}
  /\ availabilities = {AvailRow("t1", "u1", d) : d \in {1, 2, 3}}
                        \cup {AvailRow("t1", "u2", d) : d \in {1, 3}}
  /\ available_periods = {}
  /\ HandlersIdle

NextGen ==
  \/ \E p \in GenProcs, t \in Trips \cup {NoTrip}, md \in {1, 2}, ma \in {1, 2} :
       GenStart(p, "u1", t, md, ma) /\ HistGen
  \/ \E p \in GenProcs : GenCountMembers(p) /\ HistGen
  \/ \E p \in GenProcs : GenQueryDaily(p) /\ HistGen
  \/ \E p \in GenProcs : GenDeleteScan(p) /\ HistGen
  \/ \E p \in GenProcs : GenDeleteApply(p) /\ HistGen
  \/ \E p \in GenProcs : GenInsert(p) /\ HistGen
  \/ \E p \in GenProcs : GenCommit(p) /\ HistGen
  \/ \E p \in GenProcs : GenDbError(p) /\ HistGen
  \/ \E p \in GenProcs : GenNotify(p, FALSE) /\ HistGen
  \/ \E p \in GenProcs : GenReturn(p) /\ HistGen
  \/ \E t \in Trips : GetAvailablePeriods(t) /\ HistGen

SpecGen == InitGen /\ [][NextGen]_vars

\* --------------------------------------------------- SaveAvailability
saveOther == <<pipeVars, genVars, trips, available_periods>>

\* an entry of req.Dates: a day number is a well-formed YYYY-MM-DD date
\* (0 lies before every window), BlankDate is "" after TrimSpace and
\* BadDate is a string time.ParseInLocation rejects
BlankDate == 0 - 1
BadDate == 0 - 2
\* request bodies: empty, blank only, malformed, before and after the
\* window, single dates, two dates, a duplicate, a blank between dates
DateLists ==
  {<<>>, <<BlankDate>>, <<1, BadDate>>, <<0>>, <<WindowDays + 1>>,
   <<1>>, <<2>>, <<1, 2>>, <<2, 2>>, <<2, BlankDate, 1>>}

\* the validation loop over req.Dates from entry i on: uniq / validDates
RECURSIVE ValidateDates(_, _, _, _, _)
ValidateDates(dates, i, start, end, valid) ==
  IF i > Len(dates) THEN [ok |-> TRUE, valid |-> valid]
  ELSE LET s == dates[i] IN
       IF s = BlankDate THEN ValidateDates(dates, i + 1, start, end, valid)
       ELSE IF s = BadDate THEN [ok |-> FALSE, valid |-> <<>>]
       ELSE IF s < start \/ s > end THEN [ok |-> FALSE, valid |-> <<>>]
       ELSE IF \E j \in 1..Len(valid) : valid[j] = s
            THEN ValidateDates(dates, i + 1, start, end, valid)
            ELSE ValidateDates(dates, i + 1, start, end, Append(valid, s))

\* EXISTS (trips ... creator_id = $2) OR EXISTS (trip_members ... user_id = $2)
Allowed(t, u) ==
  \/ t \in DOMAIN trips /\ trips[t].creator_id = u
  \/ \E m \in trip_members : m.trip_id = t /\ m.user_id = u

\* UNIQUE (trip_id, user_id, date)
SameAvailKeyMut(a, b) == FALSE
SameAvailKey(a, b) ==
  a.trip_id = b.trip_id /\ a.user_id = b.user_id /\ a.date = b.date

AvailLockedByOthers(p) == UNION {save[q].txDel : q \in SaveProcs \ {p}}
AvailPendingOfOthers(p) == UNION {save[q].txIns : q \in SaveProcs \ {p}}
\* the trip_members row of (t, u) is locked by an open transaction's UPDATE
MemberLocked(t, u) ==
  \E q \in SaveProcs : save[q].txFlag /\ save[q].tripID = t /\ save[q].userID = u
InProgress(q) == save[q].pc \notin {"idle", "done", "failed"}

\* SELECT start_date, end_date, name of the trip
SaveStart(p, t, u, dates) ==
  /\ save[p].pc = "idle"
  /\ nextSave <= MaxSaves
  /\ nextSave' = nextSave + 1
  /\ LET ov == {q \in SaveProcs \ {p} :
                  InProgress(q) /\ save[q].tripID = t /\ save[q].userID = u}
         me == [SaveIdle EXCEPT !.tripID = t, !.userID = u, !.dates = dates,
                                !.overlap = (ov # {})]
     IN
     save' = [q \in SaveProcs |->
       IF q = p
       THEN IF t \notin DOMAIN trips
            THEN [me EXCEPT !.pc = "failed", !.status = 404]
            ELSE IF trips[t].end_date < trips[t].start_date
            THEN [me EXCEPT !.pc = "failed", !.status = 400]
            ELSE [me EXCEPT !.pc = "auth", !.tStart = trips[t].start_date,
                            !.tEnd = trips[t].end_date]
       ELSE IF q \in ov THEN [save[q] EXCEPT !.overlap = TRUE] ELSE save[q]]
  /\ UNCHANGED <<saveOther, trip_members, availabilities, myAvailResp,
                 notiStarted>>

\* the permission query, decoding and validation of req.Dates, then Begin
\* len(req.Dates) == 0, or len(validDates) == 0 after the validation loop
NothingToSaveMut(dates, valid) == FALSE
NothingToSave(dates, valid) == Len(dates) = 0 \/ Len(valid) = 0

SaveAuthorize(p) ==
  /\ save[p].pc = "auth"
  /\ LET g == save[p]
         v == ValidateDates(g.dates, 1, g.tStart, g.tEnd, <<>>)
     IN
     IF ~Allowed(g.tripID, g.userID)
     THEN save' = [save EXCEPT ![p].pc = "failed", ![p].status = 403]
     ELSE IF ~v.ok \/ NothingToSave(g.dates, v.valid)
     THEN save' = [save EXCEPT ![p].pc = "failed", ![p].status = 400]
     ELSE save' = [save EXCEPT ![p].pc = "delete", ![p].validDates = v.valid]
  /\ UNCHANGED <<saveOther, trip_members, availabilities, nextSave, myAvailResp,
                 notiStarted>>

\* WHERE trip_id = $1 AND user_id = $2
SaveDeleteWhereMut(r, t, u) == r.trip_id = t
SaveDeleteWhereUser(r, t, u) == r.user_id = u
SaveDeleteWhere(r, t, u) == r.trip_id = t /\ r.user_id = u

\* DELETE FROM availabilities WHERE trip_id = $1 AND user_id = $2: snapshot
SaveDeleteScan(p) ==
  /\ save[p].pc = "delete"
  /\ save' = [save EXCEPT ![p].pc = "deleteApply",
                 ![p].snap = {r \in availabilities :
                                SaveDeleteWhere(r, save[p].tripID, save[p].userID)}]
  /\ UNCHANGED <<saveOther, trip_members, availabilities, nextSave, myAvailResp,
                 notiStarted>>

\* ... the DELETE waits for the row locks of open transactions, then removes
SaveDeleteApply(p) ==
  /\ save[p].pc = "deleteApply"
  /\ DeleteTargets(save[p].snap, availabilities) \cap AvailLockedByOthers(p) = {}
  /\ save' = [save EXCEPT ![p].pc = "insert", ![p].snap = {},
                          ![p].txDel = DeleteTargets(save[p].snap, availabilities)]
  /\ UNCHANGED <<saveOther, trip_members, availabilities, nextSave, myAvailResp,
                 notiStarted>>

\* INSERT INTO availabilities ... FROM UNNEST(dates, statuses): one statement
SaveInsert(p) ==
  /\ save[p].pc = "insert"
  /\ LET g == save[p]
         rows == {AvailRow(g.tripID, g.userID, g.validDates[i]) : i \in 1..Len(g.validDates)}
         live == availabilities \ g.txDel
         dup == {c \in live : \E r \in rows : SameAvailKey(c, r)}
         pend == {c \in AvailPendingOfOthers(p) : \E r \in rows : SameAvailKey(c, r)}
     IN
     IF \/ dup \ AvailLockedByOthers(p) # {}
        \/ Cardinality(rows) # Len(g.validDates)
        \/ g.tripID \notin DOMAIN trips
     THEN \* unique violation, or no trips row for REFERENCES trips(id): 500,
          \* the deferred Rollback drops the transaction
          save' = [save EXCEPT ![p].pc = "failed", ![p].status = 500,
                               ![p].txDel = {}, ![p].txIns = {}]
     ELSE /\ dup = {}
          /\ pend = {}
          /\ save' = [save EXCEPT ![p].pc = "mark", ![p].txIns = rows]
  /\ UNCHANGED <<saveOther, trip_members, availabilities, nextSave, myAvailResp,
                 notiStarted>>

\* UPDATE trip_members SET availability_submitted = TRUE (if the row exists)
SaveMarkSubmitted(p) ==
  /\ save[p].pc = "mark"
  /\ ~MemberLocked(save[p].tripID, save[p].userID)
  /\ save' = [save EXCEPT ![p].pc = "commit",
                 ![p].txFlag = \E m \in trip_members :
                                  m.trip_id = save[p].tripID /\ m.user_id = save[p].userID]
  /\ UNCHANGED <<saveOther, trip_members, availabilities, nextSave, myAvailResp,
                 notiStarted>>

\* the entries of a request that name a date
DateSet(dates) == {dates[i] : i \in 1..Len(dates)} \ {BlankDate, BadDate}

\* tx.Commit
SaveCommit(p) ==
  /\ save[p].pc = "commit"
  /\ LET g == save[p] k == <<g.tripID, g.userID>> IN
     /\ availabilities' = (availabilities \ g.txDel) \cup g.txIns
     /\ trip_members' =
          IF g.txFlag
          THEN {IF m.trip_id = g.tripID /\ m.user_id = g.userID
                THEN [m EXCEPT !.availability_submitted = TRUE] ELSE m : m \in trip_members}
          ELSE trip_members
  /\ save' = [save EXCEPT ![p].pc = "notify", ![p].txDel = {}, ![p].txIns = {},
                          ![p].txFlag = FALSE]
  /\ UNCHANGED <<saveOther, nextSave, myAvailResp, notiStarted>>

\* defer tx.Rollback: the committed rows after an open transaction g is dropped
SaveRollbackMut(committed, g) == committed \ g.txDel
SaveRollback(committed, g) == committed

\* a statement or the commit returns an error: 500 and Rollback
SaveDbError(p) ==
  /\ save[p].pc \in {"delete", "deleteApply", "insert", "mark", "commit"}
  /\ availabilities' = SaveRollback(availabilities, save[p])
  /\ save' = [save EXCEPT ![p].pc = "failed", ![p].status = 500, ![p].snap = {},
                          ![p].txDel = {}, ![p].txIns = {}, ![p].txFlag = FALSE]
  /\ UNCHANGED <<saveOther, trip_members, nextSave, myAvailResp, notiStarted>>

\* SELECT creator_id of the trip (the error is dropped and creatorID stays
\* uuid.Nil when the row is gone), sendNoti to the creator, the 200 response
SaveNotify(p) ==
  /\ save[p].pc = "notify"
  /\ LET creatorID == IF save[p].tripID \in DOMAIN trips
                       THEN trips[save[p].tripID].creator_id ELSE NilUser
     IN notiStarted' = notiStarted \cup
          sendNoti(creatorID, "Created Availability",
                   NotiTask(0, creatorID, save[p].tripID,
                            "availability_updated", Len(save[p].validDates)))
  /\ save' = [save EXCEPT ![p].pc = "done", ![p].status = 200]
  /\ UNCHANGED <<saveOther, trip_members, availabilities, nextSave, myAvailResp>>

\* the handler has returned; the request slot is free again
SaveReturn(p) ==
  /\ save[p].pc \in {"done", "failed"}
  /\ nextSave <= MaxSaves
  /\ save' = [save EXCEPT ![p] = SaveIdle]
  /\ UNCHANGED <<saveOther, trip_members, availabilities, nextSave, myAvailResp,
                 notiStarted>>

\* -------------------------------------------------- GetMyAvailability
\* SELECT date ... ORDER BY date ASC
RECURSIVE AscendingDates(_)
AscendingDates(S) ==
  IF S = {} THEN <<>>
  ELSE LET d == CHOOSE x \in S : \A y \in S : x <= y
       IN <<d>> \o AscendingDates(S \ {d})

StoredDates(t, u) == {r.date : r \in {r \in availabilities : r.trip_id = t /\ r.user_id = u}}

GetMyAvailability(t, u) ==
  /\ t \in DOMAIN trips
  /\ trips[t].end_date >= trips[t].start_date
  /\ Allowed(t, u)
  /\ myAvailResp' = [valid |-> TRUE, user_id |-> u,
                     items |-> AscendingDates(StoredDates(t, u)),
                     after |-> lastSaved[<<t, u>>]]
  /\ UNCHANGED <<pipeVars, dbVars, genVars, save, nextSave, notiStarted>>

\* ------------------------------------------------- membership changes
\* JoinViaLink: a user without a row is inserted as accepted member; a row
\* that is pending or of any other status is updated to accepted (409 when
\* it is accepted already)
JoinViaLink(t, u) ==
  /\ t \in DOMAIN trips
  /\ ~\E m \in trip_members : m.trip_id = t /\ m.user_id = u /\ m.status = "accepted"
  /\ IF \E m \in trip_members : m.trip_id = t /\ m.user_id = u
     THEN /\ ~MemberLocked(t, u)
          /\ trip_members' = {IF m.trip_id = t /\ m.user_id = u
                              THEN [m EXCEPT !.status = "accepted"] ELSE m :
                                m \in trip_members}
     ELSE trip_members' = trip_members \cup {MemberRow(t, u, FALSE)}
  /\ UNCHANGED <<pipeVars, genVars, saveVars, trips, availabilities, available_periods, notiStarted>>

\* LeaveTrip: an accepted member other than the creator deletes the own row
LeaveTrip(t, u) ==
  /\ t \in DOMAIN trips
  /\ u # trips[t].creator_id
  /\ \E m \in trip_members : m.trip_id = t /\ m.user_id = u /\ m.status = "accepted"
  /\ ~MemberLocked(t, u)
  /\ trip_members' = {m \in trip_members : ~(m.trip_id = t /\ m.user_id = u)}
  /\ UNCHANGED <<pipeVars, genVars, saveVars, trips, availabilities, available_periods, notiStarted>>

\* RemoveMember: the creator deletes the row of another member
RemoveMember(t, u) ==
  /\ t \in DOMAIN trips
  /\ u # trips[t].creator_id
  /\ \E m \in trip_members : m.trip_id = t /\ m.user_id = u
  /\ ~MemberLocked(t, u)
  /\ trip_members' = {m \in trip_members : ~(m.trip_id = t /\ m.user_id = u)}
  /\ UNCHANGED <<pipeVars, genVars, saveVars, trips, availabilities, available_periods, notiStarted>>

\* ------------------------------------------------------- trip changes
\* an open transaction holds locks on rows of trip t: rows it deleted or
\* inserted (the latter lock the trips row FOR KEY SHARE) or a member row
TripRowsLocked(t) ==
  \/ \E q \in SaveProcs :
       save[q].tripID = t /\ (save[q].txDel # {} \/ save[q].txIns # {} \/ save[q].txFlag)
  \/ \E q \in GenProcs :
       gen[q].tripID = t /\ (gen[q].txDel # {} \/ gen[q].txIns # {})

\* UpdateTrip by the creator: UPDATE trips SET start_date, end_date (one
\* statement, no other table is touched); 400 when end_date < start_date
UpdateTrip(t, u, startDate, endDate) ==
  /\ t \in DOMAIN trips
  /\ trips[t].creator_id = u
  /\ ~(endDate < startDate)
  /\ trips' = [trips EXCEPT ![t].start_date = startDate, ![t].end_date = endDate]
  /\ UNCHANGED <<pipeVars, genVars, saveVars, trip_members, availabilities,
                 available_periods, notiStarted>>

\* the rows left in a table with trip_id REFERENCES trips(id) ON DELETE CASCADE
Cascade(rows, t) == {r \in rows : r.trip_id # t}

\* DeleteTrip by the creator: DELETE FROM trips WHERE id = $1, which waits
\* for the locks of open transactions and removes the rows that reference it
DeleteTrip(t, u) ==
  /\ t \in DOMAIN trips
  /\ trips[t].creator_id = u
  /\ ~TripRowsLocked(t)
  /\ trips' = [x \in DOMAIN trips \ {t} |-> trips[x]]
  /\ trip_members' = Cascade(trip_members, t)
  /\ availabilities' = Cascade(availabilities, t)
  /\ available_periods' = Cascade(available_periods, t)
  /\ UNCHANGED <<pipeVars, genVars, saveVars, notiStarted>>

\* TripDates: the inclusive date range of the trip and its number of days,
\* for the creator or a user with a member row
TripDates(t, u) ==
  /\ t \in DOMAIN trips
  /\ trips[t].end_date >= trips[t].start_date
  /\ Allowed(t, u)
  /\ myAvailResp' = [valid |-> TRUE, user_id |-> u,
                     items |-> <<trips[t].start_date, trips[t].end_date,
                                 trips[t].end_date - trips[t].start_date + 1>>,
                     after |-> NoSave]
  /\ UNCHANGED <<pipeVars, dbVars, genVars, save, nextSave, notiStarted>>

\* the tables right after CreateTrip: the creator is an accepted member
InitDb ==
  /\ xpc = "in" /\ xDaily = <<>> /\ xMinDays = 0 /\ xMinAvail = 0
  /\ xTotal = 0 /\ xPeriods = <<>>
  /\ trips = [t \in Trips |-> [start_date |-> 1, end_date |-> WindowDays, creator_id |-> "u1"]]
  /\ availabilities = {}
  /\ available_periods = {}
  /\ HandlersIdle

\* history of the ledger: per member the committed submissions
HistSave ==
  LET c == {p \in SaveProcs : save[p].pc = "commit" /\ save'[p].pc = "notify"} IN
  /\ lastSaved' = [k \in Trips \X Users |->
        IF \E p \in c : <<save[p].tripID, save[p].userID>> = k
        THEN LET p == CHOOSE p \in c : <<save[p].tripID, save[p].userID>> = k
             IN [some |-> TRUE, dates |-> save[p].dates, overlap |-> save[p].overlap]
        ELSE lastSaved[k]]
  /\ savedSets' = [k \in Trips \X Users |->
        savedSets[k] \cup {DateSet(save[p].dates) :
                             p \in {p \in c : <<save[p].tripID, save[p].userID>> = k}}]
  /\ UNCHANGED <<histSets, lastCommit, snapshots, runHist>>

\* --------------------------------- specification: concurrent submission
InitSave ==
  /\ InitDb
  /\ trip_members = {MemberRow("t1", u, FALSE) : u \in Users}

NextSave ==
  \/ \E p \in SaveProcs, t \in Trips, u \in Users, dates \in DateLists :
       SaveStart(p, t, u, dates) /\ HistSave
  \/ \E p \in SaveProcs : SaveAuthorize(p) /\ HistSave
  \/ \E p \in SaveProcs : SaveDeleteScan(p) /\ HistSave
  \/ \E p \in SaveProcs : SaveDeleteApply(p) /\ HistSave
  \/ \E p \in SaveProcs : SaveInsert(p) /\ HistSave
  \/ \E p \in SaveProcs : SaveMarkSubmitted(p) /\ HistSave
  \/ \E p \in SaveProcs : SaveCommit(p) /\ HistSave
  \/ \E p \in SaveProcs : SaveDbError(p) /\ HistSave
  \/ \E p \in SaveProcs : SaveNotify(p) /\ HistSave
  \/ \E p \in SaveProcs : SaveReturn(p) /\ HistSave
  \/ \E t \in Trips, u \in Users : GetMyAvailability(t, u) /\ HistSave

SpecSave == InitSave /\ [][NextSave]_vars

\* ------------------ specification: requests and membership changes
\* what the two reads of a run would return on the tables as they are
Snapshot(p) ==
  [totalMembers |-> CountAccepted(gen[p].tripID),
   daily |-> DailyCounts(gen[p].tripID, gen[p].tStart, gen[p].tEnd)]

\* history kept for every run that has not finished its reads
Observe ==
  /\ snapshots' = [p \in GenProcs |->
    IF gen'[p].pc \in {"count", "daily"}
    THEN (IF gen[p].pc = "idle" THEN {} ELSE snapshots[p]) \cup {Snapshot(p)'}
    ELSE IF gen'[p].pc \in {"idle", "failed"} THEN {} ELSE snapshots[p]]
  /\ UNCHANGED <<histSets, lastCommit, lastSaved, savedSets, runHist>>

\* the request bodies of the submissions in this specification
MainDateLists == {<<0>>, <<1>>, <<1, 2>>}

Init ==
  /\ InitDb
  /\ trip_members = {MemberRow("t1", "u1", FALSE)}

Next ==
  \/ \E t \in Trips, md \in {0, 2}, ma \in {1, 2} :
       nextRun <= MainRuns /\ GenStart("g1", "u1", t, md, ma) /\ Observe
  \/ GenCountMembers("g1") /\ Observe
  \/ GenQueryDaily("g1") /\ Observe
  \/ GenDeleteScan("g1") /\ Observe
  \/ GenDeleteApply("g1") /\ Observe
  \/ GenInsert("g1") /\ Observe
  \/ GenCommit("g1") /\ Observe
  \/ GenDbError("g1") /\ Observe
  \/ GenNotify("g1", FALSE) /\ Observe
  \/ GenReturn("g1") /\ Observe
  \/ \E t \in Trips, u \in Users, dates \in MainDateLists :
       nextSave <= MainSaves /\ SaveStart("s1", t, u, dates) /\ Observe
  \/ SaveAuthorize("s1") /\ Observe
  \/ SaveDeleteScan("s1") /\ Observe
  \/ SaveDeleteApply("s1") /\ Observe
  \/ SaveInsert("s1") /\ Observe
  \/ SaveMarkSubmitted("s1") /\ Observe
  \/ SaveCommit("s1") /\ Observe
  \/ SaveDbError("s1") /\ Observe
  \/ SaveNotify("s1") /\ Observe
  \/ SaveReturn("s1") /\ Observe
  \/ \E t \in Trips, u \in Users : JoinViaLink(t, u) /\ Observe
  \/ \E t \in Trips, u \in Users : LeaveTrip(t, u) /\ Observe
  \/ \E t \in Trips, u \in Users : RemoveMember(t, u) /\ Observe

Spec == Init /\ [][Next]_vars

\* --------------------- specification: generation and its notifications
\* one attempt of the goroutine of sendNoti: h.noti.Create returns nil, an
\* error that ends the loop (deadline, validation) or an error that is retried
AttemptOutcomeMut(a, res) ==
  IF res = "ok" THEN "created" ELSE IF a >= maxRetries THEN "dropped" ELSE "running"
AttemptOutcome(a, res) ==
  IF res = "ok" THEN "created"
  ELSE IF res = "fatal" \/ a >= maxRetries THEN "dropped"
  ELSE "running"

NotiAttempt(task, res) ==
  /\ task \in notiStarted
  /\ task.state = "running"
  /\ LET a == task.attempt + 1 IN
     notiStarted' = (notiStarted \ {task})
                      \cup {[task EXCEPT !.attempt = a, !.last = res,
                                         !.state = AttemptOutcome(a, res)]}
  /\ UNCHANGED <<pipeVars, dbVars, genVars, saveVars>>

\* history of the runs: those whose commit returned nil, those that failed
HistNoti ==
  /\ runHist' =
       [committed |-> runHist.committed \cup
          {gen[p].run : p \in {q \in GenProcs :
                                 gen[q].pc = "commit" /\ gen'[q].pc = "notify"}},
        failed |-> runHist.failed \cup
          {IF gen[p].pc = "idle" THEN nextRun ELSE gen[p].run :
             p \in {q \in GenProcs : gen[q].pc # "failed" /\ gen'[q].pc = "failed"}}]
  /\ UNCHANGED <<histSets, lastCommit, lastSaved, savedSets, snapshots>>

\* the tables when CreateTrip has inserted the trips row and the INSERT of the
\* creator's member row, whose error is dropped, has not taken effect; the
\* creator and a former member have submitted dates: counts 2,1,2 once both
\* are accepted members
InitNoti ==
  /\ xpc = "in" /\ xDaily = <<>> /\ xMinDays = 0 /\ xMinAvail = 0
  /\ xTotal = 0 /\ xPeriods = <<>>
  /\ trips = [t \in Trips |-> [start_date |-> 1, end_date |-> WindowDays, creator_id |-> "u1"]]
  /\ trip_members = {}
  /\ availabilities = {AvailRow("t1", "u1", d) : d \in {1, 2, 3}}
                        \cup {AvailRow("t1", "u2", d) : d \in {1, 3}}
  /\ available_periods = {}
  /\ HandlersIdle

NextNoti ==
  \/ \E t \in Trips \cup {NoTrip}, ma \in {1, 2} :
       nextRun <= NotiRuns /\ GenStart("g1", "u1", t, 1, ma) /\ HistNoti
  \/ GenCountMembers("g1") /\ HistNoti
  \/ GenQueryDaily("g1") /\ HistNoti
  \/ GenDeleteScan("g1") /\ HistNoti
  \/ GenDeleteApply("g1") /\ HistNoti
  \/ GenInsert("g1") /\ HistNoti
  \/ GenCommit("g1") /\ HistNoti
  \/ GenDbError("g1") /\ HistNoti
  \/ \E cancelled \in BOOLEAN : GenNotify("g1", cancelled) /\ HistNoti
  \/ GenReturn("g1") /\ HistNoti
  \/ \E t \in Trips, u \in Users : JoinViaLink(t, u) /\ HistNoti
  \/ \E t \in Trips, u \in Users : LeaveTrip(t, u) /\ HistNoti
  \/ \E t \in Trips, u \in Users : RemoveMember(t, u) /\ HistNoti
  \/ \E task \in notiStarted, res \in {"ok", "retry", "fatal"} :
       NotiAttempt(task, res) /\ HistNoti

SpecNoti == InitNoti /\ [][NextNoti]_vars

\* ------------------------------------------- specification: pure pipeline
InitExtract ==
  /\ xpc = "in"
  /\ \E c \in CountSeqs : xDaily = DailyOf(c)
  /\ xMinDays \in -1..MaxParam
  /\ xMinAvail \in -1..MaxParam
  /\ xTotal \in MaxCount..(MaxCount + 1)
  /\ xPeriods = <<>>
  /\ DbEmpty

RunPipeline ==
  /\ xpc = "in"
  /\ xpc' = "out"
  /\ xPeriods' = ComputePeriods(xDaily, xMinAvail, xMinDays, xTotal)
  /\ UNCHANGED <<xDaily, xMinDays, xMinAvail, xTotal>>
  /\ UNCHANGED <<dbVars, genVars, saveVars, notiStarted>>

NextExtract == RunPipeline /\ UNCHANGED histVars

SpecExtract == InitExtract /\ [][NextExtract]_vars

\* ---------------------------------------------- claims on the pure pipeline
Range(s) == {s[i] : i \in 1..Len(s)}
NDays == Len(xDaily)
DayQualifies(d) == xDaily[d].FreeCount >= DefaultParam(xMinAvail)
\* the maximal runs of qualifying days that are long enough, stated directly
MaximalRuns ==
  {r \in (1..NDays) \X (1..NDays) :
     /\ r[1] <= r[2]
     /\ \A d \in r[1]..r[2] : DayQualifies(d)
     /\ (r[1] = 1 \/ ~DayQualifies(r[1] - 1))
     /\ (r[2] = NDays \/ ~DayQualifies(r[2] + 1))
     /\ r[2] - r[1] + 1 >= DefaultParam(xMinDays)}
RECURSIVE SumDur(_)
SumDur(s) == IF s = <<>> THEN 0 ELSE Head(s).Duration + SumDur(Tail(s))
MinOver(S) == CHOOSE m \in S : \A x \in S : m <= x

\* C6: the generated periods are exactly the maximal runs of consecutive
\* qualifying days of length >= min_days: every day inside qualifies, the
\* days around a period do not, and no two periods overlap or touch.
C6_MaximalRuns ==
  xpc = "out" =>
    /\ {<<p.Start, p.End>> : p \in Range(xPeriods)} = MaximalRuns
    /\ Len(xPeriods) = Cardinality(MaximalRuns)
    /\ \A i, j \in 1..Len(xPeriods) :
         i # j => \/ xPeriods[i].End + 1 < xPeriods[j].Start
                  \/ xPeriods[j].End + 1 < xPeriods[i].Start
C6_Witness ==
  /\ xpc = "out"
  /\ Len(xPeriods) = 2
  /\ DefaultParam(xMinDays) = 2
  /\ \E d \in 1..NDays : ~DayQualifies(d)

\* C8: min_free of a period is the minimum daily free_count over its days,
\* hence at least min_availability_member.
C8_MinFree ==
  xpc = "out" =>
    \A p \in Range(xPeriods) :
      /\ p.MinFree = MinOver({xDaily[d].FreeCount : d \in p.Start..p.End})
      /\ p.MinFree >= DefaultParam(xMinAvail)
C8_Witness ==
  /\ xpc = "out"
  /\ \E p \in Range(xPeriods) :
       /\ p.Duration >= 3
       /\ xDaily[p.Start].FreeCount > p.MinFree
       /\ xDaily[p.End].FreeCount > p.MinFree

\* C9: no period is shorter than the effective min_days (a supplied value
\* <= 0 counts as 1, also for min_availability_member); shorter runs are
\* dropped and the pipeline still yields its result.
C9_MinLength ==
  xpc = "out" =>
    /\ \A p \in Range(xPeriods) :
         /\ p.Duration >= DefaultParam(xMinDays)
         /\ p.Duration = p.End - p.Start + 1
         /\ xMinDays <= 0 => p.Duration >= 1
         /\ xMinAvail <= 0 => \A d \in p.Start..p.End : xDaily[d].FreeCount >= 1
    /\ xMinDays <= 0 =>
         \A d \in 1..NDays : DayQualifies(d) =>
           \E p \in Range(xPeriods) : d \in p.Start..p.End
C9_Witness ==
  /\ xpc = "out"
  /\ xMinDays = 2
  /\ Len(xPeriods) = 1
  /\ \E d \in 1..NDays :
       /\ DayQualifies(d)
       /\ \A p \in Range(xPeriods) : d \notin p.Start..p.End

\* C10 as stated: raising min_availability_member never increases the
\* number of periods nor their total length.
C10_Original ==
  xpc = "out" =>
    \A m \in 1..(MaxParam + 1) :
      m > xMinAvail =>
        /\ Len(ComputePeriods(xDaily, m, xMinDays, xTotal)) <= Len(xPeriods)
        /\ SumDur(ComputePeriods(xDaily, m, xMinDays, xTotal)) <= SumDur(xPeriods)
\* C10 amended: raising min_availability_member never increases the total
\* length in days of the periods (their number may grow when a run splits).
C10_TotalLength ==
  xpc = "out" =>
    \A m \in 1..(MaxParam + 1) :
      m > xMinAvail =>
        SumDur(ComputePeriods(xDaily, m, xMinDays, xTotal)) <= SumDur(xPeriods)
C10_Witness ==
  /\ xpc = "out"
  /\ Len(xPeriods) = 1
  /\ \E m \in 1..(MaxParam + 1) :
       /\ m > xMinAvail
       /\ Len(ComputePeriods(xDaily, m, xMinDays, xTotal)) = 2
       /\ SumDur(ComputePeriods(xDaily, m, xMinDays, xTotal)) < SumDur(xPeriods)

\* -------------------------------------------- claims on the period store
RespRows == Range(periodsResp.rows)
Quiescent == \A p \in GenProcs : gen[p].pc \in {"idle", "done", "failed"}

\* C1: every GetAvailablePeriods read returns the complete period set of one
\* single committed run (or the initial set): never rows of two runs, and
\* never an empty list while a run that deleted existing periods is open.
C1_ReadsOneCommittedRun ==
  periodsResp.valid =>
    /\ RespRows \in histSets
    /\ \A a, b \in RespRows : a.id[1] = b.id[1]
    /\ periodsResp.duringDelete => RespRows # {}
C1_Witness ==
  /\ periodsResp.valid
  /\ periodsResp.duringDelete
  /\ Cardinality(RespRows) = 2
  /\ \E p \in GenProcs : gen[p].txIns # {}
  /\ Cardinality(histSets) >= 3

\* C2: concurrent runs do not interleave: once the runs have finished, the
\* stored set is the set computed by the run that committed last.
C2_LastCommittedWins ==
  Quiescent => available_periods = lastCommit

\* ------------------------------------------------ claims on the ledger
\* C3: after a successful SaveAvailability(trip, user, D) that no other
\* submission of the same member overlaps, the stored dates of (trip, user)
\* are exactly the deduplicated dates of D, all free, whatever was stored
\* before, and GetMyAvailability returns them in ascending order.
C3_ReplaceExactly ==
  /\ \A k \in Trips \X Users :
       (lastSaved[k].some /\ ~lastSaved[k].overlap) =>
         {r \in availabilities : r.trip_id = k[1] /\ r.user_id = k[2]}
           = {AvailRow(k[1], k[2], d) : d \in DateSet(lastSaved[k].dates)}
  /\ (myAvailResp.valid /\ myAvailResp.after.some /\ ~myAvailResp.after.overlap) =>
       /\ Range(myAvailResp.items) = DateSet(myAvailResp.after.dates)
       /\ Len(myAvailResp.items) = Cardinality(DateSet(myAvailResp.after.dates))
       /\ \A i, j \in 1..Len(myAvailResp.items) :
            i < j => myAvailResp.items[i] < myAvailResp.items[j]
\* a resubmission B after A, read back: exactly B, with a duplicate dropped
C3_Witness ==
  /\ nextSave > 2
  /\ myAvailResp.valid /\ myAvailResp.after.some /\ ~myAvailResp.after.overlap
  /\ Len(myAvailResp.after.dates) > Len(myAvailResp.items)
  /\ \E k \in Trips \X Users :
       /\ Cardinality(savedSets[k]) = 3
       /\ \E A \in savedSets[k] : A # {} /\ A \cap Range(myAvailResp.items) = {}

\* C4: two concurrent SaveAvailability calls of one member leave exactly
\* A, exactly B or the set stored before, never a union or other mixture.
C4_NoMixture ==
  \A k \in Trips \X Users : StoredDates(k[1], k[2]) \in savedSets[k]

\* ------------------------------------------- claims on the aggregation
HasRead(p) == gen[p].pc \in {"delete", "deleteApply", "insert", "commit", "notify", "done"}

\* C5: total_members and the daily counts of a run are the values of the
\* accepted-member set and the ledger at one single moment of the run.
C5_OneSnapshot ==
  \A p \in GenProcs :
    HasRead(p) =>
      [totalMembers |-> gen[p].totalMembers, daily |-> gen[p].daily] \in snapshots[p]

\* the free_count of date d on the tables as they are: the accepted members
\* with a free row for d
AcceptedFreeOn(t, d) ==
  Cardinality({u \in Users :
     /\ \E m \in trip_members : m.trip_id = t /\ m.user_id = u /\ m.status = "accepted"
     /\ \E a \in availabilities :
          a.trip_id = t /\ a.user_id = u /\ a.date = d /\ a.status = "free"})

\* C7: the daily-count sequence of a run has one entry per date of the
\* window, ascending without gap, and the entry of date d is the number of
\* accepted members with a free row for d; rows of other users count nothing.
C7_WindowCoverage ==
  [][\A p \in GenProcs :
       GenQueryDaily(p) =>
         LET g == gen'[p] IN
         /\ Len(g.daily) = g.tEnd - g.tStart + 1
         /\ \A k \in 1..Len(g.daily) :
              /\ g.daily[k].Date = g.tStart + k - 1
              /\ g.daily[k].FreeCount = AcceptedFreeOn(g.tripID, g.daily[k].Date)]_vars
C7_Witness ==
  \E p \in GenProcs :
    /\ gen[p].pc = "delete"
    /\ gen[p].daily = DailyCounts(gen[p].tripID, gen[p].tStart, gen[p].tEnd)
    /\ Len(gen[p].daily) = WindowDays
    /\ \E k \in 1..Len(gen[p].daily) : gen[p].daily[k].FreeCount = 0
    /\ \E k \in 1..Len(gen[p].daily) : gen[p].daily[k].FreeCount >= 1
    /\ \E a \in availabilities :
         /\ ~\E m \in trip_members : m.user_id = a.user_id
         /\ gen[p].daily[a.date].FreeCount = 0

\* ------------------------------------------------- claims on the ranking
\* the periods as extracted, before sort.SliceStable
RawPeriods ==
  ExtractPeriods(xDaily, DefaultParam(xMinAvail), DefaultParam(xMinDays), xTotal)
\* every order the same periods could have been extracted in
Reorderings(s) ==
  {[i \in 1..Len(s) |-> s[f[i]]] :
     f \in {g \in [1..Len(s) -> 1..Len(s)] : \A i, j \in 1..Len(s) : g[i] = g[j] => i = j}}

\* C11: the ranked periods are in the strict order min_free descending,
\* duration descending, start ascending, numbered 1..N by position, and the
\* ranking of the same raw periods is the same whatever order they come in.
C11_DeterministicRank ==
  xpc = "out" =>
    /\ \A i, j \in 1..Len(xPeriods) : i < j =>
         /\ PeriodLess(xPeriods[i], xPeriods[j])
         /\ \/ xPeriods[i].MinFree > xPeriods[j].MinFree
            \/ /\ xPeriods[i].MinFree = xPeriods[j].MinFree
               /\ xPeriods[i].Duration > xPeriods[j].Duration
            \/ /\ xPeriods[i].MinFree = xPeriods[j].MinFree
               /\ xPeriods[i].Duration = xPeriods[j].Duration
               /\ xPeriods[i].Start < xPeriods[j].Start
    /\ \A i \in 1..Len(xPeriods) :
         PeriodRow("t1", 1, i, xPeriods[i]).period_number = i
    /\ Range(xPeriods) = Range(RawPeriods) /\ Len(xPeriods) = Len(RawPeriods)
    /\ \A s \in Reorderings(RawPeriods) : SortPeriods(s) = xPeriods
\* three periods, reordered by the sort, two of them tied on min_free and
\* duration and separated by the start date only
C11_Witness ==
  /\ xpc = "out"
  /\ Len(xPeriods) = 3
  /\ xPeriods # RawPeriods
  /\ \E i \in 1..2 :
       /\ xPeriods[i].MinFree = xPeriods[i + 1].MinFree
       /\ xPeriods[i].Duration = xPeriods[i + 1].Duration

\* ---------------------------------------- claims on the stored period rows
StoredPeriods(t) == {r \in available_periods : r.trip_id = t}

\* C12: in every committed state the rows of a trip carry the period numbers
\* 1..N, each once, and every row has duration_days = end_date - start_date + 1.
C12_DenseNumbers ==
  \A t \in Trips :
    /\ {r.period_number : r \in StoredPeriods(t)} = 1..Cardinality(StoredPeriods(t))
    /\ \A r \in StoredPeriods(t) : r.duration_days = r.end_date - r.start_date + 1
\* two rows of a later run in the store while another run has failed
C12_Witness ==
  /\ Cardinality(StoredPeriods("t1")) = 2
  /\ \A r \in StoredPeriods("t1") : r.id[1] >= 2
  /\ \E p \in GenProcs : gen[p].pc = "failed" /\ gen[p].status = 500
  /\ \E p \in GenProcs : gen[p].pc \in {"deleteApply", "insert", "commit"}

\* ------------------------------------------- claims on failing requests
GenFails(p) == gen[p].pc # "failed" /\ gen'[p].pc = "failed"

\* C13: a GenerateAvailablePeriods run that fails at any step leaves the
\* committed rows of available_periods as they are: no step of the run before
\* a successful commit changes them, a run past its commit does not fail,
\* and no row of a failing run is in the store.
C13_FailedRunKeepsStore ==
  [][/\ \A p \in GenProcs :
          GenFails(p) =>
            /\ available_periods' = available_periods
            /\ gen[p].pc \in {"idle", "count", "daily", "delete", "deleteApply",
                              "insert", "commit"}
            /\ \A r \in available_periods' : r.id[1] # gen[p].run
     /\ available_periods' # available_periods =>
          \E p \in GenProcs : gen[p].pc = "commit" /\ gen'[p].pc = "notify"]_vars
\* a run that failed with 500 after its DELETE and an INSERT, the rows of an
\* earlier run still stored; and a request for an unknown trip answered 404
C13_Witness ==
  /\ \E p \in GenProcs :
       gen[p].pc = "failed" /\ gen[p].status = 500 /\ gen[p].i >= 2
  /\ \E p \in GenProcs : gen[p].pc = "failed" /\ gen[p].status = 404
  /\ available_periods # {}

SaveFails(p) == save[p].pc # "failed" /\ save'[p].pc = "failed"

\* C14: a SaveAvailability call that fails, on a malformed or out-of-range
\* date or on an error of the DELETE, the INSERT or the commit, leaves the
\* rows of availabilities and the availability_submitted flags as they are:
\* only a successful commit changes them, and a call past its commit does
\* not fail.
C14_FailedSaveKeepsLedger ==
  [][/\ \A p \in SaveProcs :
          SaveFails(p) =>
            /\ availabilities' = availabilities
            /\ trip_members' = trip_members
            /\ save[p].pc \in {"idle", "auth", "delete", "deleteApply", "insert",
                               "mark", "commit"}
     /\ (availabilities' # availabilities \/ trip_members' # trip_members) =>
          \E p \in SaveProcs : save[p].pc = "commit" /\ save'[p].pc = "notify"]_vars
\* after a committed submission, a second call of the member that validated
\* other dates failed with 500 in its transaction; the stored dates are kept
C14_Witness ==
  \E p \in SaveProcs :
    /\ save[p].pc = "failed" /\ save[p].status = 500
    /\ save[p].validDates # <<>>
    /\ lastSaved[<<save[p].tripID, save[p].userID>>].some
    /\ StoredDates(save[p].tripID, save[p].userID) # {}
    /\ StoredDates(save[p].tripID, save[p].userID) \cap DateSet(save[p].validDates) = {}

\* C15: a successful run with an empty ranked set clears the stored periods
\* of the trip: when such a run is the one that committed last, the store of
\* the trip is empty (and a read returns an empty list).
C15_EmptyRunClears ==
  \A p \in GenProcs :
    (/\ gen[p].pc \in {"notify", "done"}
     /\ gen[p].periods = <<>>
     /\ lastCommit = {}
     /\ \A q \in GenProcs \ {p} : gen[q].pc \in {"idle", "done", "failed"})
    => StoredPeriods(gen[p].tripID) = {}

\* ------------------------------- claims on the run and its notifications
\* C16: a run on a trip with zero accepted members completes without error
\* (all-zero counts, empty period list, total_members 0): its member count
\* step does not end the request with an error status.
C16_ZeroMembersCompletes ==
  [][\A p \in GenProcs :
       (GenCountMembers(p) /\ CountAccepted(gen[p].tripID) = 0) =>
         (gen'[p].pc # "failed" /\ gen'[p].status \notin {400, 500})]_vars

TasksOf(run) == {n \in notiStarted : n.type = "trip_update" /\ n.src = run}

\* C17: a 'periods generated' notification is started only after the
\* replacing transaction of its run has committed; a run that failed or was
\* rolled back at any step has started none.
C17_NotifyAfterCommit ==
  /\ \A n \in notiStarted :
       n.type = "trip_update" => (n.src \in runHist.committed /\ n.src \notin runHist.failed)
  /\ \A r \in runHist.failed : TasksOf(r) = {}
  /\ \A p \in GenProcs :
       gen[p].pc \in {"count", "daily", "delete", "deleteApply", "insert", "commit"}
         => TasksOf(gen[p].run) = {}
\* the tasks of a committed run exist while a later run has failed with 500
\* after its DELETE and an INSERT
C17_Witness ==
  /\ \E r \in runHist.committed : TasksOf(r) # {}
  /\ \E p \in GenProcs :
       /\ gen[p].pc = "failed" /\ gen[p].status = 500 /\ gen[p].i >= 2
       /\ gen[p].run \in runHist.failed
       /\ TasksOf(gen[p].run) = {}

\* the rows a run writes for its ranked periods
RowsOfRun(g) ==
  {PeriodRow(g.tripID, g.run, PeriodNo(i), g.periods[i]) : i \in 1..Len(g.periods)}

\* C18: failure of any or all notification attempts of a run, the member
\* query included, never changes the run's outcome: the committed period set
\* stays in the store and the caller gets the success result with the periods.
C18_NotifyFailureHarmless ==
  \A p \in GenProcs :
    gen[p].pc = "done" =>
      /\ gen[p].status = 200
      /\ gen[p].run \in runHist.committed /\ gen[p].run \notin runHist.failed
      /\ StoredPeriods(gen[p].tripID) = RowsOfRun(gen[p])
\* a run answered 200 with a period, its rows stored, every one of its
\* notification tasks dropped, one of them after the last retry
C18_Witness ==
  \E p \in GenProcs :
    /\ gen[p].pc = "done" /\ gen[p].status = 200
    /\ gen[p].periods # <<>>
    /\ StoredPeriods(gen[p].tripID) = RowsOfRun(gen[p])
    /\ Cardinality(TasksOf(gen[p].run)) = 2
    /\ \A n \in TasksOf(gen[p].run) : n.state = "dropped"
    /\ \E n \in TasksOf(gen[p].run) : n.attempt = maxRetries
    /\ \E n \in TasksOf(gen[p].run) : n.attempt = 1

\* C19: after a successful run exactly one notification task is started per
\* accepted member, the same members that were counted in total_members,
\* each carrying the trip id and the number of generated periods.
C19_OneTaskPerCountedMember ==
  \A p \in GenProcs :
    (gen[p].pc = "done" /\ ~gen[p].notiErr) =>
      /\ Cardinality(TasksOf(gen[p].run)) = gen[p].totalMembers
      /\ \A n \in TasksOf(gen[p].run) :
           n.trip_id = gen[p].tripID /\ n.n = Len(gen[p].periods)

\* C20: once the transaction of a run has committed, a notification task is
\* started for every accepted member, whether or not the caller's request
\* has been cancelled meanwhile (a task that is never started is never
\* attempted), and the handler goes on without waiting for the tasks.
C20_NotifiedDespiteCancel ==
  [][\A p \in GenProcs :
       (AfterCommit(gen[p]) /\ gen'[p].pc = "done") =>
         /\ \A m \in trip_members :
              (m.trip_id = gen[p].tripID /\ m.status = "accepted") =>
                \E n \in notiStarted' : n.src = gen[p].run /\ n.to = m.user_id
         /\ \A n \in notiStarted' \ notiStarted : n.state = "running"]_vars

\* ------------------------------------------- claims on storage conflicts
\* the INSERT of run p meets a committed row with its (trip_id, period_number)
UniqueConflict(p) ==
  /\ gen[p].pc = "insert"
  /\ \E c \in available_periods \ (gen[p].txDel \cup PeriodsLockedByOthers(p)) :
       SamePeriodKey(c, PeriodRow(gen[p].tripID, gen[p].run, PeriodNo(gen[p].i),
                                  gen[p].periods[gen[p].i]))

\* C21: when the replace transaction cannot go on because of a storage
\* conflict, the operation retries it internally and surfaces an error only
\* after the retries: the step that meets the conflict does not end the
\* request with an error.
C21_ConflictRetried ==
  [][\A p \in GenProcs :
       (UniqueConflict(p) /\ GenInsert(p)) => gen'[p].pc # "failed"]_vars

\* ------------- specification: callers, membership statuses, trip windows
\* a participant of trip t: its creator or a member whose status is accepted
Participant(t, u) ==
  \/ t \in DOMAIN trips /\ trips[t].creator_id = u
  \/ \E m \in trip_members : m.trip_id = t /\ m.user_id = u /\ m.status = "accepted"

\* the windows UpdateTrip sets: the whole window again, or without its first day
TripWindows == {<<1, WindowDays>>, <<2, WindowDays>>}

\* the creator is an accepted member; the other user has no member row, a
\* pending one (the column default) or a declined one
InitTrip ==
  /\ InitDb
  /\ \/ trip_members = {MemberRow("t1", "u1", FALSE)}
     \/ \E st \in {"pending", "declined"} :
          trip_members = {MemberRow("t1", "u1", FALSE), InvitedRow("t1", "u2", st)}

NextTrip ==
  \/ \E u \in Users, t \in Trips :
       nextRun <= MainRuns /\ GenStart("g1", u, t, 1, 1) /\ UNCHANGED histVars
  \/ GenCountMembers("g1") /\ UNCHANGED histVars
  \/ GenQueryDaily("g1") /\ UNCHANGED histVars
  \/ GenDeleteScan("g1") /\ UNCHANGED histVars
  \/ GenDeleteApply("g1") /\ UNCHANGED histVars
  \/ GenInsert("g1") /\ UNCHANGED histVars
  \/ GenCommit("g1") /\ UNCHANGED histVars
  \/ GenDbError("g1") /\ UNCHANGED histVars
  \/ GenNotify("g1", FALSE) /\ UNCHANGED histVars
  \/ GenReturn("g1") /\ UNCHANGED histVars
  \/ \E t \in Trips, u \in Users, dates \in MainDateLists :
       nextSave <= MainSaves /\ SaveStart("s1", t, u, dates) /\ UNCHANGED histVars
  \/ SaveAuthorize("s1") /\ UNCHANGED histVars
  \/ SaveDeleteScan("s1") /\ UNCHANGED histVars
  \/ SaveDeleteApply("s1") /\ UNCHANGED histVars
  \/ SaveInsert("s1") /\ UNCHANGED histVars
  \/ SaveMarkSubmitted("s1") /\ UNCHANGED histVars
  \/ SaveCommit("s1") /\ UNCHANGED histVars
  \/ SaveDbError("s1") /\ UNCHANGED histVars
  \/ SaveNotify("s1") /\ UNCHANGED histVars
  \/ SaveReturn("s1") /\ UNCHANGED histVars
  \/ \E t \in Trips, u \in Users : JoinViaLink(t, u) /\ UNCHANGED histVars
  \/ \E t \in Trips, u \in Users : LeaveTrip(t, u) /\ UNCHANGED histVars
  \/ \E t \in Trips, u \in Users : RemoveMember(t, u) /\ UNCHANGED histVars
  \/ \E t \in Trips, u \in Users, w \in TripWindows :
       UpdateTrip(t, u, w[1], w[2]) /\ UNCHANGED histVars

SpecTrip == InitTrip /\ [][NextTrip]_vars

\* --------------------------------------------- claims on authorization
\* C22: SaveAvailability writes rows only for a caller who is the creator of
\* the trip or an accepted member: the permission step lets no other caller
\* (no member row, or a pending or declined one) through, but answers 403.
C22_OnlyParticipantsSave ==
  [][\A p \in SaveProcs :
       (SaveAuthorize(p) /\ ~Participant(save[p].tripID, save[p].userID)) =>
         (save'[p].pc = "failed" /\ save'[p].status = 403)]_vars

\* C23: GenerateAvailablePeriods goes on only for a caller who is a
\* participant of the trip: a request of another authenticated user ends
\* with NotAuthorized before anything is read, replaced or notified.
C23_OnlyParticipantsGenerate ==
  [][\A p \in GenProcs :
       (gen[p].pc = "idle" /\ gen'[p].pc # "idle"
          /\ ~Participant(gen'[p].tripID, gen'[p].userID)) =>
         (gen'[p].pc = "failed" /\ gen'[p].status \in {401, 403})]_vars

\* ------------------------------------------- claims on the ledger rows
\* C24: in every reachable state every stored availability row has a date
\* inside the current inclusive window [start_date, end_date] of its trip,
\* and no two rows share the same (trip_id, user_id, date).
C24_RowsInsideWindow ==
  /\ \A r \in availabilities :
       /\ r.trip_id \in DOMAIN trips
       /\ trips[r.trip_id].start_date <= r.date
       /\ r.date <= trips[r.trip_id].end_date
  /\ \A a, b \in availabilities : SameAvailKey(a, b) => a = b

\* ------------------------------------------------ claims on the percentage
\* C25: for every period of a run, the availability_percentage read back by
\* GetAvailablePeriods equals the one in the response of the generation,
\* which is min_free / total_members * 100 rounded to two decimals, for all
\* 1 <= min_free <= total_members.
C25_SamePercentage ==
  xpc = "out" =>
    \A i \in 1..Len(xPeriods) :
      LET p == xPeriods[i] IN
      /\ 1 <= p.MinFree /\ p.MinFree <= p.TotalM
      /\ RespPercent(p) = Round2(Percent(p.MinFree, p.TotalM))
      /\ ReadPercent(PeriodRow("t1", 1, PeriodNo(i), p)) = RespPercent(p)

\* ------------------ specification: requests, reads and the trip's deletion
\* the request bodies of the submissions in this specification
FrameDateLists == {<<2>>, <<1, 3>>}

\* two trips: t1, which the requests name, with both users accepted and a
\* date stored for each; and another one with stored dates (one of a user
\* who has left it) and a stored period
InitFrame ==
  /\ xpc = "in" /\ xDaily = <<>> /\ xMinDays = 0 /\ xMinAvail = 0
  /\ xTotal = 0 /\ xPeriods = <<>>
  /\ trips = [t \in Trips \cup {OtherTrip} |->
                [start_date |-> 1, end_date |-> WindowDays,
                 creator_id |-> IF t = OtherTrip THEN "u2" ELSE "u1"]]
  /\ trip_members = {MemberRow("t1", u, TRUE) : u \in Users}
                      \cup {MemberRow(OtherTrip, "u2", TRUE)}
  /\ availabilities = {AvailRow(t, u, 1) : t \in Trips \cup {OtherTrip}, u \in Users}
  /\ available_periods =
       {PeriodRow(OtherTrip, 0, 1,
                  [Start |-> 1, End |-> 1, Duration |-> 1, MinFree |-> 1,
                   TotalM |-> 1, Percent |-> Percent(1, 1)])}
  /\ HandlersIdle

NextFrame ==
  \/ \E t \in Trips, ma \in {1, 2} :
       nextRun <= FrameCalls /\ GenStart("g1", "u1", t, 1, ma) /\ UNCHANGED histVars
  \/ GenCountMembers("g1") /\ UNCHANGED histVars
  \/ GenQueryDaily("g1") /\ UNCHANGED histVars
  \/ GenDeleteScan("g1") /\ UNCHANGED histVars
  \/ GenDeleteApply("g1") /\ UNCHANGED histVars
  \/ GenInsert("g1") /\ UNCHANGED histVars
  \/ GenCommit("g1") /\ UNCHANGED histVars
  \/ GenDbError("g1") /\ UNCHANGED histVars
  \/ GenNotify("g1", FALSE) /\ UNCHANGED histVars
  \/ GenReturn("g1") /\ UNCHANGED histVars
  \/ \E t \in Trips, u \in Users, dates \in FrameDateLists :
       nextSave <= FrameCalls /\ SaveStart("s1", t, u, dates) /\ UNCHANGED histVars
  \/ SaveAuthorize("s1") /\ UNCHANGED histVars
  \/ SaveDeleteScan("s1") /\ UNCHANGED histVars
  \/ SaveDeleteApply("s1") /\ UNCHANGED histVars
  \/ SaveInsert("s1") /\ UNCHANGED histVars
  \/ SaveMarkSubmitted("s1") /\ UNCHANGED histVars
  \/ SaveCommit("s1") /\ UNCHANGED histVars
  \/ SaveDbError("s1") /\ UNCHANGED histVars
  \/ SaveNotify("s1") /\ UNCHANGED histVars
  \/ SaveReturn("s1") /\ UNCHANGED histVars
  \/ \E t \in Trips, u \in Users : GetMyAvailability(t, u) /\ UNCHANGED histVars
  \/ \E t \in Trips : GetAvailablePeriods(t) /\ UNCHANGED histVars
  \/ \E t \in Trips, u \in Users : TripDates(t, u) /\ UNCHANGED histVars
  \/ \E t \in Trips, u \in Users : DeleteTrip(t, u) /\ UNCHANGED histVars

SpecFrame == InitFrame /\ [][NextFrame]_vars

\* ------------------------------------------------ claims on frame effects
\* the rows of a table that a step adds or removes
Changed(before, after) == (before \ after) \cup (after \ before)

\* a step of a SaveAvailability request touches the availability rows of its
\* own (trip, user) only and no period row
FrameSave ==
  \A p \in SaveProcs :
    save'[p] # save[p] =>
      /\ \A r \in Changed(availabilities, availabilities') :
           r.trip_id = save[p].tripID /\ r.user_id = save[p].userID
      /\ available_periods' = available_periods
\* a step of GetMyAvailability, TripDates or GetAvailablePeriods touches no row
FrameReads ==
  (myAvailResp' # myAvailResp \/ periodsResp' # periodsResp) => UNCHANGED dbVars
\* a step of a GenerateAvailablePeriods request touches no availability row,
\* and period rows of its own trip only
FrameGen ==
  \A p \in GenProcs :
    gen'[p] # gen[p] =>
      /\ availabilities' = availabilities
      /\ \A r \in Changed(available_periods, available_periods') :
           r.trip_id = gen[p].tripID
\* the step deletes a trip and, by cascade, exactly the period rows of it
CascadeStep ==
  \E t \in DOMAIN trips \ DOMAIN trips' :
    available_periods' = Cascade(available_periods, t)

\* C26 as stated: SaveAvailability of (t, u) changes no availability row of
\* another user or trip and no period row; the reads change no row; and
\* GenerateAvailablePeriods is the only operation that inserts or deletes
\* period rows, and it changes no availability row.
C26_Original ==
  [][/\ FrameSave /\ FrameReads /\ FrameGen
     /\ available_periods' # available_periods => \E p \in GenProcs : GenCommit(p)]_vars
\* C26 amended: as stated, except that DeleteTrip removes the period rows of
\* the deleted trip (ON DELETE CASCADE); only GenerateAvailablePeriods
\* inserts period rows, and nothing else deletes any.
C26_FrameEffects ==
  [][/\ FrameSave /\ FrameReads /\ FrameGen
     /\ available_periods' # available_periods =>
          \/ \E p \in GenProcs : GenCommit(p)
          \/ CascadeStep /\ available_periods' \subseteq available_periods]_vars
\* the trip of a committed run and a committed submission has been deleted
\* after its periods were read; the rows of the other trip are all stored
C26_Witness ==
  /\ "t1" \notin DOMAIN trips
  /\ gen["g1"].pc = "done" /\ gen["g1"].periods # <<>>
  /\ save["s1"].pc = "done"
  /\ periodsResp.valid /\ periodsResp.rows # <<>>
  /\ myAvailResp.valid
  /\ {r \in availabilities : r.trip_id = OtherTrip}
       = {AvailRow(OtherTrip, u, 1) : u \in Users}
  /\ Cardinality(available_periods) = 1

\* ------------------- specification: the notification tasks to their end
\* the creator is the only accepted member
InitSend ==
  /\ InitDb
  /\ trip_members = {MemberRow("t1", "u1", FALSE)}

\* the attempts of the goroutines started by sendNoti
Attempts ==
  \E task \in notiStarted, res \in {"ok", "retry", "fatal"} :
    NotiAttempt(task, res) /\ UNCHANGED histVars

NextSend ==
  \/ \E t \in Trips :
       nextRun <= SendCalls /\ GenStart("g1", "u1", t, 1, 1) /\ UNCHANGED histVars
  \/ GenCountMembers("g1") /\ UNCHANGED histVars
  \/ GenQueryDaily("g1") /\ UNCHANGED histVars
  \/ GenDeleteScan("g1") /\ UNCHANGED histVars
  \/ GenDeleteApply("g1") /\ UNCHANGED histVars
  \/ GenInsert("g1") /\ UNCHANGED histVars
  \/ GenCommit("g1") /\ UNCHANGED histVars
  \/ GenNotify("g1", FALSE) /\ UNCHANGED histVars
  \/ GenReturn("g1") /\ UNCHANGED histVars
  \/ \E t \in Trips, dates \in {<<1>>, <<1, 2>>} :
       nextSave <= SendCalls /\ SaveStart("s1", t, "u1", dates) /\ UNCHANGED histVars
  \/ SaveAuthorize("s1") /\ UNCHANGED histVars
  \/ SaveDeleteScan("s1") /\ UNCHANGED histVars
  \/ SaveDeleteApply("s1") /\ UNCHANGED histVars
  \/ SaveInsert("s1") /\ UNCHANGED histVars
  \/ SaveMarkSubmitted("s1") /\ UNCHANGED histVars
  \/ SaveCommit("s1") /\ UNCHANGED histVars
  \/ SaveNotify("s1") /\ UNCHANGED histVars
  \/ SaveReturn("s1") /\ UNCHANGED histVars
  \/ \E t \in Trips : DeleteTrip(t, "u1") /\ UNCHANGED histVars
  \/ Attempts

\* a started goroutine is scheduled: each call of Create ends within its timeout
SpecSend == InitSend /\ [][NextSend]_vars /\ WF_vars(Attempts)

\* --------------------------------------- claims on the notification tasks
\* what holds of every started task at every moment
TaskBounds ==
  \A n \in notiStarted :
    /\ n.attempt \in 0..maxRetries
    /\ n.to # NilUser
    /\ n.state = "running" => n.attempt < maxRetries /\ n.last \in {"none", "retry"}
    /\ n.last = "ok" <=> n.state = "created"
    /\ n.last = "fatal" => n.state = "dropped"
    /\ n.state = "dropped" => (n.last = "fatal" \/ n.attempt = maxRetries)
\* a task that is no longer running is never attempted again, and a second
\* attempt follows a first one that failed with a retryable error only
TaskSteps ==
  /\ \A n \in notiStarted : n.state # "running" => n \in notiStarted'
  /\ \A n \in notiStarted' \ notiStarted :
       n.attempt = 2 =>
         \E m \in notiStarted \ notiStarted' :
           m.attempt = 1 /\ m.last = "retry" /\ m.state = "running"
\* a call of sendNoti with the nil recipient or a blank title starts nothing
NoTaskForInvalid ==
  \A to \in Users \cup {NilUser}, title \in {"", "Created Availability"} :
    LET task == NotiTask(0, to, "t1", "availability_updated", 1) IN
    sendNoti(to, title, task) = IF to = NilUser \/ title = "" THEN {} ELSE {task}
AllTasksEnded == \A n \in notiStarted : n.state # "running"

\* C27: every task started by sendNoti calls Create at most 2 times, stops
\* after the first success, makes no second attempt after a deadline or
\* validation error, and always terminates; a notification to the nil user
\* id or with a blank title starts no task.
C27_BoundedAttempts ==
  /\ [](TaskBounds /\ NoTaskForInvalid)
  /\ [][TaskSteps]_vars
  /\ <>[]AllTasksEnded
\* a task created on its second attempt, after a first retryable failure,
\* while a submission whose trip was deleted before its notification
\* (recipient uuid.Nil) is done and has started no task
C27_Witness ==
  /\ \E n \in notiStarted : n.state = "created" /\ n.attempt = 2
  /\ save["s1"].pc = "done" /\ save["s1"].status = 200 /\ "t1" \notin DOMAIN trips
  /\ \A n \in notiStarted : n.type # "availability_updated"

\* C28: every stored period has 1 <= free_count <= total_members, so its
\* availability_percentage lies in (0, 100], also when a membership change
\* or a submission commits between the run's member count and its daily read.
C28_FreeWithinMembers ==
  \A r \in available_periods :
    /\ 1 <= r.free_count /\ r.free_count <= r.total_members
    /\ 0 < r.availability_percentage /\ r.availability_percentage <= 1000000

\* C29: a trip_members row whose user has at least one stored availability
\* row for that trip has availability_submitted = TRUE, also after the user
\* leaves or is removed from the trip and later joins it again.
C29_SubmittedFlagSet ==
  \A m \in trip_members :
    (\E a \in availabilities : a.trip_id = m.trip_id /\ a.user_id = m.user_id)
      => m.availability_submitted

\* a request body with no date at all: empty, or blank entries only
BlankOnly(dates) == \A i \in 1..Len(dates) : dates[i] = BlankDate
\* no step of a submission with such a body touches the ledger or opens its
\* transaction; the permitted caller is answered 400
RejectedUnchanged ==
  \A p \in SaveProcs :
    (save'[p].pc # "idle" /\ BlankOnly(save'[p].dates) /\ save'[p] # save[p]) =>
      /\ availabilities' = availabilities /\ trip_members' = trip_members
      /\ save'[p].pc \in {"auth", "failed"}
      /\ (save'[p].pc = "failed" /\ Allowed(save[p].tripID, save[p].userID)
            /\ save[p].pc = "auth") => save'[p].status = 400
\* after one committed submission the member's stored set is never empty
NeverEmptyAgain ==
  \A k \in Trips \X Users : lastSaved[k].some => StoredDates(k[1], k[2]) # {}

\* C30: SaveAvailability with an empty date list, or a list whose entries are
\* all blank, is rejected as a validation error and leaves the member's stored
\* set unchanged; so a member whose submission has once succeeded never
\* returns to an empty stored set through SaveAvailability.
C30_EmptyRejected == [][RejectedUnchanged]_vars /\ []NeverEmptyAgain
\* a member with a committed submission and stored dates whose request with
\* blank entries only was answered 400
C30_Witness ==
  \E k \in Trips \X Users :
    /\ lastSaved[k].some /\ StoredDates(k[1], k[2]) # {}
    /\ \E p \in SaveProcs :
         /\ save[p].pc = "failed" /\ save[p].status = 400
         /\ save[p].tripID = k[1] /\ save[p].userID = k[2]
         /\ save[p].dates = <<BlankDate>>

====
